---- MODULE Spec2Model ----
(***************************************************************************)
(* A model of the imgcmp library: the Image value (lib/src/image.rs), the  *)
(* rescaler and the grayscale reducer (lib/src/image_processing.rs), the   *)
(* DCT hashing (lib/src/dct.rs) and compare_images (lib/src/lib.rs).       *)
(*                                                                         *)
(* A call of the library ends in one of three ways, kept in the field      *)
(* `kind` of its outcome: "ok" (Ok(..)), "err" (Err(..)) or "panic" (an    *)
(* index out of bounds).                                                   *)
(***************************************************************************)
EXTENDS Integers, Sequences, FiniteSets

VARIABLES image, call, pc, left, right, cmp

vars == <<image, call, pc, left, right, cmp>>

----------------------------------------------------------------------------
(* Bounds of the model and the inputs drawn from them.                     *)

\* Longest raw buffer of which every content is tried.
MaxLen == 4
\* Largest width handed to Image::from, besides the wide ones.
MaxWidth == 3
\* Largest channel count handed to Image::from.
MaxChannels == 2
\* Largest width and height asked of scale_image.
MaxNew == 3

\* The byte values a raw buffer is filled with: the two ends of u8.
ByteVals == {0, 255}

\* Lengths of the long buffers, one buffer each: widths at which the f32
\* arithmetic of sample_pixels is inexact (14 to 2, 61 to 1 or 2).
WideLens == {14, 61}

SmallBufs == UNION {[1..n -> ByteVals] : n \in 0..MaxLen}

\* A long buffer: its first half 255, its second half 0.
WideBuf(n) == [i \in 1..n |-> IF i <= n \div 2 THEN 255 ELSE 0]

WideBufs == {WideBuf(n) : n \in WideLens}

RawBufs == SmallBufs \cup WideBufs

Widths == 0..MaxWidth \cup WideLens

ChannelCounts == 0..MaxChannels

NewDims == 0..MaxNew

\* Longest raw buffer of the two images handed to compare_images, besides
\* the wide one.
CmpMaxLen == 2

CmpRawBufs == UNION {[1..n -> ByteVals] : n \in 1..CmpMaxLen}

\* The widths and the channel counts of the images compared.
CmpWidths == {1, 2}

CmpChannels == {1, 2}

\* The arguments of Image::from that build the images compared: every small
\* buffer at every small width, and one row of 61 one-byte pixels.
CmpSources ==
    {<<raw, w, c>> : raw \in CmpRawBufs, w \in CmpWidths, c \in CmpChannels}
        \cup {<<WideBuf(61), 61, 1>>}

\* Bits of a hash, and the most cells hash_coefficients accepts.
HashBits == 64

\* dct_dimension: the two-dimensional DCT is modelled for 1 x 1 and 2 x 2
\* (see CalcDctCoefficients); 0 is the degenerate dimension.
DctDims == {0, 1, 2}

\* dct_reduced_dimension: none, within the DCT or beyond it, the largest that
\* fits a hash (8 * 8 = 64) and the least that does not (9 * 9 = 81).
ReducedDims == {0, 1, 2, 8, 9}

\* allowed_distance: small thresholds, the largest distance and one beyond.
AllowedDistances == {0, 1, HashBits, HashBits + 1}

Configs ==
    [dct_dimension : DctDims, dct_reduced_dimension : ReducedDims,
     allowed_distance : AllowedDistances]

----------------------------------------------------------------------------
(* f32: the values `as f32`, `/`, floor() and ceil() produce, exactly.     *)
(* A finite positive f32 is m * 2^e with 2^23 <= m < 2^24 (24 significant  *)
(* bits); zero and +infinity are classes of their own. Every integer      *)
(* converted here is below 2^24, so `as f32` is exact.                     *)

RECURSIVE Pow2(_)
Pow2(n) == IF n = 0 THEN 1 ELSE 2 * Pow2(n - 1)

\* Significant bits of an f32.
F32Bits == 24

F32Zero == [cls |-> "zero", m |-> 0, e |-> 0]

F32Inf == [cls |-> "inf", m |-> 0, e |-> 0]

\* The least 24-bit significand: 2^23.
F32Hidden == Pow2(F32Bits - 1)

RECURSIVE F32Normal(_, _)
F32Normal(m, e) ==
    IF m >= F32Hidden
    THEN [cls |-> "num", m |-> m, e |-> e]
    ELSE F32Normal(2 * m, e - 1)

\* `n as f32` for an unsigned integer n < 2^24.
F32FromInt(n) == IF n = 0 THEN F32Zero ELSE F32Normal(n, 0)

\* k more quotient bits of r / d by long division (r < d): <<bits, remainder>>.
RECURSIVE DivBits(_, _, _, _)
DivBits(r, d, k, q) ==
    IF k = 0 THEN <<q, r>>
    ELSE IF 2 * r >= d
         THEN DivBits(2 * r - d, d, k - 1, 2 * q + 1)
         ELSE DivBits(2 * r, d, k - 1, 2 * q)

\* a / b in f32: the quotient rounded to nearest, ties to even.
F32Div(a, b) ==
    IF a.cls = "zero" \/ b.cls = "inf" THEN F32Zero
    ELSE IF b.cls = "zero" \/ a.cls = "inf" THEN F32Inf
    ELSE LET low  == a.m < b.m
             num  == IF low THEN 2 * a.m ELSE a.m
             e    == a.e - b.e - (F32Bits - 1) - (IF low THEN 1 ELSE 0)
             qr   == DivBits(num - b.m, b.m, F32Bits - 1, 1)
             q    == qr[1]
             r    == qr[2]
             up   == 2 * r > b.m \/ (2 * r = b.m /\ q % 2 = 1)
         IN  IF up THEN F32Normal(q + 1, e) ELSE [cls |-> "num", m |-> q, e |-> e]

\* a.floor() as u32, for a finite a >= 0 below 2^24.
F32Floor(a) ==
    IF a.cls = "zero" THEN 0
    ELSE IF a.e >= 0 THEN a.m * Pow2(a.e)
    ELSE IF -a.e > F32Bits THEN 0
    ELSE a.m \div Pow2(-a.e)

\* a.ceil() as u32, for a finite a >= 0 below 2^24.
F32Ceil(a) ==
    IF a.cls = "zero" THEN 0
    ELSE IF a.e >= 0 THEN a.m * Pow2(a.e)
    ELSE IF -a.e > F32Bits THEN 1
    ELSE (a.m \div Pow2(-a.e)) + (IF a.m % Pow2(-a.e) = 0 THEN 0 ELSE 1)

----------------------------------------------------------------------------
(* Image (lib/src/image.rs). pixels is the Vec<Pixel>: element i + 1 of    *)
(* the sequence is pixels[i].                                              *)

MkImage(width, height, channels_per_pixel, pixels) ==
    [width |-> width, height |-> height,
     channels_per_pixel |-> channels_per_pixel, pixels |-> pixels]

\* The binding that holds no image yet.
NoImage == MkImage(0, 0, 0, <<>>)

Ok(img) == [kind |-> "ok", image |-> img]

Err == [kind |-> "err", image |-> NoImage]

Panic == [kind |-> "panic", image |-> NoImage]

\* Image::from.
ImageFrom(raw_image, width, channels_per_pixel) ==
    IF Len(raw_image) = 0 \/ width = 0 \/ channels_per_pixel = 0 THEN Err
    ELSE LET num_pixels == Len(raw_image) \div channels_per_pixel
             height     == num_pixels \div width
             pixels     == [i \in 1..num_pixels |->
                               SubSeq(raw_image,
                                      (i - 1) * channels_per_pixel + 1,
                                      (i - 1) * channels_per_pixel + channels_per_pixel)]
         IN  Ok(MkImage(width, height, channels_per_pixel, pixels))

\* The index get_pixel and access_pixel compute.
PixelIndex(img, x, y) == y * img.width + x

\* Whether get_pixel(x, y) indexes inside the Vec (it panics otherwise).
PixelInVec(img, x, y) == PixelIndex(img, x, y) < Len(img.pixels)

\* Image::get_pixel, where it does not panic.
GetPixel(img, x, y) == img.pixels[PixelIndex(img, x, y) + 1]

RECURSIVE SumSeq(_)
SumSeq(s) == IF Len(s) = 0 THEN 0 ELSE Head(s) + SumSeq(Tail(s))

----------------------------------------------------------------------------
(* The rescaler and the grayscale reducer (lib/src/image_processing.rs).   *)

\* The sequence of elements of a row-major list of lists, in order.
RECURSIVE Flatten(_)
Flatten(ss) == IF Len(ss) = 0 THEN <<>> ELSE Head(ss) \o Flatten(Tail(ss))

\* average_pixels panics on an empty list (pixels[0]) and on a pixel longer
\* than the first (average_pixel[i]).
AveragePanics(pixels) ==
    Len(pixels) = 0 \/ \E p \in 1..Len(pixels) : Len(pixels[p]) > Len(pixels[1])

\* average_pixels, where it does not panic: the per-channel sum, divided in
\* f32 by the number of pixels and floored.
AveragePixels(pixels) ==
    [i \in 1..Len(pixels[1]) |->
        LET sum == SumSeq([p \in 1..Len(pixels) |->
                             IF i <= Len(pixels[p]) THEN pixels[p][i] ELSE 0])
        IN  F32Floor(F32Div(F32FromInt(sum), F32FromInt(Len(pixels))))]

\* The edges sample_pixels computes for one destination coordinate:
\* left and top, then right and bottom.
FootLow(new_c, scale) == F32Floor(F32Div(F32FromInt(new_c), scale))

FootHigh(new_c, scale) == F32Ceil(F32Div(F32FromInt(new_c + 1), scale))

\* The source pixels sample_pixels collects, x outer and y inner, as
\* <<x, y>> positions.
Footprint(new_x, new_y, scale_x, scale_y) ==
    LET l == FootLow(new_x, scale_x)
        r == FootHigh(new_x, scale_x)
        t == FootLow(new_y, scale_y)
        b == FootHigh(new_y, scale_y)
        nx == IF r > l THEN r - l ELSE 0
        ny == IF b > t THEN b - t ELSE 0
    IN  [i \in 1..(nx * ny) |-> <<l + ((i - 1) \div ny), t + ((i - 1) % ny)>>]

\* The pixels sample_pixels hands to average_pixels.
Sampled(img, foot) == [i \in 1..Len(foot) |-> GetPixel(img, foot[i][1], foot[i][2])]

\* sample_pixels panics when a get_pixel leaves the Vec, or average_pixels does.
SamplePanics(img, new_x, new_y, scale_x, scale_y) ==
    LET foot == Footprint(new_x, new_y, scale_x, scale_y)
    IN  \/ \E i \in 1..Len(foot) : ~PixelInVec(img, foot[i][1], foot[i][2])
        \/ AveragePanics(Sampled(img, foot))

\* sample_pixels, where it does not panic.
SamplePixels(img, new_x, new_y, scale_x, scale_y) ==
    AveragePixels(Sampled(img, Footprint(new_x, new_y, scale_x, scale_y)))

\* The resampling branch of scale_image (lines 13 to 27).
Resample(img, new_width, new_height) ==
    LET scale_x == F32Div(F32FromInt(new_width), F32FromInt(img.width))
        scale_y == F32Div(F32FromInt(new_height), F32FromInt(img.height))
        n       == new_width * new_height
    IN  IF \E i \in 1..n : SamplePanics(img, (i - 1) % new_width,
                                        (i - 1) \div new_width, scale_x, scale_y)
        THEN Panic
        ELSE LET scaled_data ==
                     Flatten([i \in 1..n |->
                         SamplePixels(img, (i - 1) % new_width,
                                      (i - 1) \div new_width, scale_x, scale_y)])
             IN  ImageFrom([j \in 1..Len(scaled_data) |-> scaled_data[j] % 256],
                           new_width, img.channels_per_pixel)

\* A scale_image that does not reject a zero dimension.
ScaleImageNoZeroCheck(img, new_width, new_height) ==
    IF new_width = img.width /\ new_height = img.height THEN Ok(img)
    ELSE Resample(img, new_width, new_height)

\* scale_image.
ScaleImage(img, new_width, new_height) ==
    IF new_width = 0 \/ new_height = 0 THEN Err
    ELSE IF new_width = img.width /\ new_height = img.height THEN Ok(img)
    ELSE Resample(img, new_width, new_height)

\* A grayscale closure that rounds the mean up instead of down.
GrayPixelCeil(pixel) ==
    <<F32Ceil(F32Div(F32FromInt(SumSeq(pixel)), F32FromInt(Len(pixel))))>>

\* The closure into_grayscale applies to each pixel.
GrayPixel(pixel) ==
    <<F32Floor(F32Div(F32FromInt(SumSeq(pixel)), F32FromInt(Len(pixel))))>>

\* into_grayscale: Image::apply rewrites the pixels at (x, y), y < height,
\* x < width, and nothing else of the image.
IntoGrayscale(img) ==
    [img EXCEPT !.pixels =
        [i \in 1..Len(img.pixels) |->
            IF i <= img.width * img.height
            THEN GrayPixel(img.pixels[i])
            ELSE img.pixels[i]]]

----------------------------------------------------------------------------
(* The DCT hash (lib/src/dct.rs) and compare_images (lib/src/lib.rs).      *)
(*                                                                         *)
(* A matrix is [nrows, ncols, at], at[i, j] its entry in row i, column j,  *)
(* both counted from 0. A u64 is the function from its bit positions       *)
(* 0..63 (0 the least significant) to {0, 1}.                              *)
(*                                                                         *)
(* For dct_dimension 1 and 2 every cosine of the basis is 1 or plus or     *)
(* minus 1/sqrt(2), and the factor 0.25 * c(k) * c(l) times the basis      *)
(* entry is plus or minus 1/8 for every (k, l), (m, n). The model keeps    *)
(* the sign in the basis and 8 times the coefficient, an integer, as the   *)
(* coefficient: the comparison with the mean is the same for both. The     *)
(* rounding of the f32 products and sums is not represented.               *)

Matrix(nrows, ncols, at) == [nrows |-> nrows, ncols |-> ncols, at |-> at]

\* `let x = v;` followed by F(x): v is computed once and F reads its value.
Bind(v, F(_)) == CHOOSE r \in {F(x) : x \in {v}} : TRUE

\* calc_dct_basis_at, for dim <= 2: the sign of horiz_cos * vert_cos.
CalcDctBasisAt(dim, k, l, m, n) ==
    (IF l = 1 /\ n = 1 THEN -1 ELSE 1) * (IF k = 1 /\ m = 1 THEN -1 ELSE 1)

\* calc_dct_basis: a dim x dim array of dim x dim matrices.
CalcDctBasis(dim) ==
    [dim |-> dim,
     at  |-> [k \in 0..(dim - 1), l \in 0..(dim - 1) |->
                 Matrix(dim, dim,
                        [m \in 0..(dim - 1), n \in 0..(dim - 1) |->
                            CalcDctBasisAt(dim, k, l, m, n)])]]

\* calc_dct_coefficients panics when the image is larger than the basis
\* (the unwrap of dct_basis.get, dct_mat[(m, n)]), when a get_pixel leaves the
\* Vec, or when a pixel has no channel 0.
DctPanics(img, dct_basis) ==
    \/ (img.width > 0 /\ img.height > 0
        /\ (img.width > dct_basis.dim \/ img.height > dct_basis.dim))
    \/ \E m \in 0..(img.width - 1), n \in 0..(img.height - 1) :
           ~PixelInVec(img, m, n) \/ Len(GetPixel(img, m, n)) = 0

\* calc_dct_coefficients, where it does not panic: a width x height matrix.
CalcDctCoefficients(img, dct_basis) ==
    Matrix(img.width, img.height,
           [k \in 0..(img.width - 1), l \in 0..(img.height - 1) |->
               SumSeq([i \in 1..(img.width * img.height) |->
                   LET m == (i - 1) \div img.height
                       n == (i - 1) % img.height
                   IN  GetPixel(img, m, n)[1] * dct_basis.at[k, l].at[m, n]])])

\* Matrix::resize(r, c, 0.0): the overlapping top-left block, zero elsewhere.
Resize(mat, nrows, ncols) ==
    Matrix(nrows, ncols,
           [i \in 0..(nrows - 1), j \in 0..(ncols - 1) |->
               IF i < mat.nrows /\ j < mat.ncols THEN mat.at[i, j] ELSE 0])

\* The sum of the entries of a matrix.
MatrixSum(mat) ==
    SumSeq([i \in 1..(mat.nrows * mat.ncols) |->
               mat.at[(i - 1) % mat.nrows, (i - 1) \div mat.nrows]])

\* reduce_dct_coefficients panics on reduced_coefficients[(0, 0)] when the
\* resized matrix is empty.
ReducePanics(dct_reduced_dimension) == dct_reduced_dimension = 0

\* A bit that is 0 also for a coefficient equal to the mean (<= for <).
ReduceBitStrict(c, sum, cells) == IF c * cells <= sum THEN 0 ELSE 1

\* The bit of one coefficient: 0 when it is below the mean of all cells
\* (c < sum / cells, as c * cells < sum), else 1.
ReduceBit(c, sum, cells) == IF c * cells < sum THEN 0 ELSE 1

\* reduce_dct_coefficients, where it does not panic.
ReduceDctCoefficients(coefficients, dct_reduced_dimension) ==
    Bind([Resize(coefficients, dct_reduced_dimension, dct_reduced_dimension)
              EXCEPT !.at[0, 0] = 0],
         LAMBDA reduced :
             Bind(MatrixSum(reduced),
                  LAMBDA sum :
                      Matrix(reduced.nrows, reduced.ncols,
                             [i \in 0..(reduced.nrows - 1),
                              j \in 0..(reduced.ncols - 1) |->
                                 ReduceBit(reduced.at[i, j], sum,
                                           reduced.nrows * reduced.ncols)])))

\* The u64 0.
ZeroWord == [i \in 0..(HashBits - 1) |-> 0]

\* hash | ((c as u64) << index), for c in {0, 1} and index < 64.
OrShifted(hash, c, index) ==
    [i \in 0..(HashBits - 1) |-> IF i = index /\ c = 1 THEN 1 ELSE hash[i]]

\* A fold that visits the cells row by row.
RECURSIVE HashFoldRowMajor(_, _, _)
HashFoldRowMajor(mat, index, hash) ==
    IF index = mat.nrows * mat.ncols THEN hash
    ELSE HashFoldRowMajor(mat, index + 1,
                          OrShifted(hash, mat.at[index \div mat.ncols, index % mat.ncols],
                                    index))

\* The fold of hash_coefficients over the cells from position index on, in
\* the order Matrix::fold visits them: column by column.
RECURSIVE HashFold(_, _, _)
HashFold(mat, index, hash) ==
    IF index = mat.nrows * mat.ncols THEN hash
    ELSE HashFold(mat, index + 1,
                  OrShifted(hash, mat.at[index % mat.nrows, index \div mat.nrows], index))

\* hash_coefficients.
HashCoefficients(coefficients) ==
    IF coefficients.nrows * coefficients.ncols > HashBits
    THEN [kind |-> "err", hash |-> ZeroWord]
    ELSE [kind |-> "ok", hash |-> HashFold(coefficients, 0, ZeroWord)]

\* count_ones of the bits from position i on.
RECURSIVE CountOnes(_, _)
CountOnes(word, i) ==
    IF i = HashBits THEN 0 ELSE word[i] + CountOnes(word, i + 1)

\* A comparison that counts the bits set in either hash (| for ^).
CompareHashesOr(hash1, hash2) ==
    CountOnes([i \in 0..(HashBits - 1) |-> IF hash1[i] + hash2[i] > 0 THEN 1 ELSE 0],
              0) % 256

\* compare_hashes: (hash1 ^ hash2).count_ones() as u8.
CompareHashes(hash1, hash2) ==
    CountOnes([i \in 0..(HashBits - 1) |-> (hash1[i] + hash2[i]) % 2], 0) % 256

\* hash_image.
HashImage(img, dct_basis, dct_reduced_dimension) ==
    Bind(ScaleImage(img, dct_basis.dim, dct_basis.dim),
         LAMBDA scaled :
             IF scaled.kind # "ok" THEN [kind |-> scaled.kind, hash |-> ZeroWord]
             ELSE Bind(IntoGrayscale(scaled.image),
                       LAMBDA gray :
                           IF DctPanics(gray, dct_basis)
                           THEN [kind |-> "panic", hash |-> ZeroWord]
                           ELSE Bind(CalcDctCoefficients(gray, dct_basis),
                                     LAMBDA coefficients :
                                         IF ReducePanics(dct_reduced_dimension)
                                         THEN [kind |-> "panic", hash |-> ZeroWord]
                                         ELSE Bind(ReduceDctCoefficients(
                                                       coefficients,
                                                       dct_reduced_dimension),
                                                   LAMBDA reduced :
                                                       HashCoefficients(reduced)))))

\* What a call of compare_images leaves: how it ended, its verdict when it
\* returned one, and the hashes and the distance it computed on the way.
CmpResult(config, kind, same, left_hash, right_hash, distance) ==
    [config |-> config, kind |-> kind, same |-> same, left_hash |-> left_hash,
     right_hash |-> right_hash, distance |-> distance]

NoCmp ==
    CmpResult([dct_dimension |-> 0, dct_reduced_dimension |-> 0, allowed_distance |-> 0],
              "none", FALSE, ZeroWord, ZeroWord, 0)

\* A verdict that asks for a distance strictly below the threshold.
VerdictBelow(distance, allowed_distance) == distance < allowed_distance

\* The verdict of compare_images (line 29).
Verdict(distance, allowed_distance) == distance <= allowed_distance

\* compare_images.
CompareImages(left_image, right_image, config) ==
    Bind(CalcDctBasis(config.dct_dimension),
         LAMBDA dct_basis_signals :
    Bind(HashImage(left_image, dct_basis_signals, config.dct_reduced_dimension),
         LAMBDA left_hash :
             IF left_hash.kind # "ok"
             THEN CmpResult(config, left_hash.kind, FALSE, ZeroWord, ZeroWord, 0)
             ELSE
    Bind(HashImage(right_image, dct_basis_signals, config.dct_reduced_dimension),
         LAMBDA right_hash :
             IF right_hash.kind # "ok"
             THEN CmpResult(config, right_hash.kind, FALSE, left_hash.hash,
                            ZeroWord, 0)
             ELSE
    Bind(CompareHashes(left_hash.hash, right_hash.hash),
         LAMBDA distance :
             CmpResult(config, "ok", Verdict(distance, config.allowed_distance),
                       left_hash.hash, right_hash.hash, distance)))))

----------------------------------------------------------------------------
(* The image operations as a state machine: a caller constructs an image,  *)
(* then scales it (by reference: the image stays as it is) or converts it  *)
(* to grayscale (by move: the image is replaced). `call` records the last  *)
(* call: its arguments, how it ended and what it returned. A call that     *)
(* leaves the image as it is is explored once per image: repeating it      *)
(* reaches no new state.                                                   *)

NoCall ==
    [op |-> "none", src |-> NoImage, raw |-> <<>>, width |-> 0, channels |-> 0,
     new_width |-> 0, new_height |-> 0, kind |-> "none", out |-> NoImage]

Init ==
    /\ image = NoImage
    /\ call = NoCall
    /\ pc = "image"
    /\ left = NoImage
    /\ right = NoImage
    /\ cmp = NoCmp

\* let image = Image::from(&raw, width, channels)?
From(raw, width, channels) ==
    /\ pc = "image"
    /\ call.op = "none"
    /\ LET res == ImageFrom(raw, width, channels)
       IN  /\ call' = [NoCall EXCEPT !.op = "from", !.raw = raw, !.width = width,
                          !.channels = channels, !.kind = res.kind, !.out = res.image]
           /\ image' = IF res.kind = "ok" THEN res.image ELSE image
    /\ UNCHANGED <<pc, left, right, cmp>>

\* scale_image(&image, new_width, new_height)
Scale(new_width, new_height) ==
    /\ pc = "image"
    /\ call.op \in {"from", "grayscale"}
    /\ call.kind = "ok"
    /\ LET res == ScaleImage(image, new_width, new_height)
       IN  call' = [NoCall EXCEPT !.op = "scale", !.src = image,
                       !.new_width = new_width, !.new_height = new_height,
                       !.kind = res.kind, !.out = res.image]
    /\ UNCHANGED <<image, pc, left, right, cmp>>

\* let image = into_grayscale(image)
Grayscale ==
    /\ pc = "image"
    /\ call.op \in {"from", "grayscale"}
    /\ call.kind = "ok"
    /\ LET res == IntoGrayscale(image)
       IN  /\ call' = [NoCall EXCEPT !.op = "grayscale", !.src = image,
                          !.kind = "ok", !.out = res]
           /\ image' = res
    /\ UNCHANGED <<pc, left, right, cmp>>

\* The coordinates asked of get_pixel: inside and beyond the small images.
Coords == {0, 1, 2, 3}

\* image.get_pixel(x, y)
CallGetPixel(x, y) ==
    /\ pc = "image"
    /\ call.op \in {"from", "grayscale"}
    /\ call.kind = "ok"
    /\ call' = IF PixelInVec(image, x, y)
               THEN [op |-> "get_pixel", src |-> image, x |-> x, y |-> y,
                     kind |-> "ok", pixel |-> GetPixel(image, x, y)]
               ELSE [op |-> "get_pixel", src |-> image, x |-> x, y |-> y,
                     kind |-> "panic", pixel |-> <<>>]
    /\ UNCHANGED <<image, pc, left, right, cmp>>

Next ==
    \/ \E raw \in RawBufs, w \in Widths, c \in ChannelCounts : From(raw, w, c)
    \/ \E nw \in NewDims, nh \in NewDims : Scale(nw, nh)
    \/ Grayscale
    \/ \E x \in Coords, y \in Coords : CallGetPixel(x, y)

Spec == Init /\ [][Next]_vars

----------------------------------------------------------------------------
(* compare_images as a state machine: a caller builds the left and the     *)
(* right image with Image::from, as main does, then compares them.         *)

InitCompare ==
    /\ image = NoImage
    /\ call = NoCall
    /\ pc = "left"
    /\ left = NoImage
    /\ right = NoImage
    /\ cmp = NoCmp

\* let img1 = Image::from(&raw, width, channels)?
LoadLeft(raw, width, channels) ==
    /\ pc = "left"
    /\ ImageFrom(raw, width, channels).kind = "ok"
    /\ left' = ImageFrom(raw, width, channels).image
    /\ pc' = "right"
    /\ UNCHANGED <<image, call, right, cmp>>

\* let img2 = Image::from(&raw, width, channels)?
LoadRight(raw, width, channels) ==
    /\ pc = "right"
    /\ ImageFrom(raw, width, channels).kind = "ok"
    /\ right' = ImageFrom(raw, width, channels).image
    /\ pc' = "compare"
    /\ UNCHANGED <<image, call, left, cmp>>

\* compare_images(&img1, &img2, config)
Compare(config) ==
    /\ pc = "compare"
    /\ cmp' = CompareImages(left, right, config)
    /\ pc' = "done"
    /\ UNCHANGED <<image, call, left, right>>

NextCompare ==
    \/ \E s \in CmpSources : LoadLeft(s[1], s[2], s[3])
    \/ \E s \in CmpSources : LoadRight(s[1], s[2], s[3])
    \/ \E config \in Configs : Compare(config)

SpecCompare == InitCompare /\ [][NextCompare]_vars

----------------------------------------------------------------------------
(* The functions of lib/src/dct.rs on their own, as a state machine: a     *)
(* caller hands one of them its arguments; `call` records the arguments,   *)
(* how the call ended and what it returned.                                *)

\* Most rows, and most columns, of the bit matrices of which every content
\* is tried.
MaxBitDim == 2

\* Every nrows x ncols matrix of entries drawn from vals.
Matrices(nrows, ncols, vals) ==
    {Matrix(nrows, ncols, at) :
        at \in [(0..(nrows - 1)) \X (0..(ncols - 1)) -> vals]}

\* The nrows x ncols matrix whose rows are the elements of rows.
FromRows(nrows, ncols, rows) ==
    Matrix(nrows, ncols,
           [i \in 0..(nrows - 1), j \in 0..(ncols - 1) |-> rows[i + 1][j + 1]])

\* The nrows x ncols matrix of which every entry is c.
Filled(nrows, ncols, c) ==
    Matrix(nrows, ncols, [i \in 0..(nrows - 1), j \in 0..(ncols - 1) |-> c])

\* The matrix of the test calculate_hash_from_matrix.
TestBits == FromRows(3, 3, <<<<0, 1, 0>>, <<1, 1, 1>>, <<1, 0, 0>>>>)

\* The bit matrices handed to hash_coefficients: the small ones, the test's,
\* full matrices of 64 cells (8 x 8, 4 x 16) and matrices of 65 and 81 cells.
BitMatrices ==
    UNION {Matrices(r, c, {0, 1}) : r \in 0..MaxBitDim, c \in 0..MaxBitDim}
        \cup {TestBits, Filled(8, 8, 0), Filled(8, 8, 1), Filled(4, 16, 1),
              Filled(5, 13, 1), Filled(13, 5, 0), Filled(9, 9, 0), Filled(9, 9, 1)}

\* The 64-bit word whose bits are those of bits, the least significant
\* first, and 0 above them.
WordOfBits(bits) ==
    [i \in 0..(HashBits - 1) |-> IF i < Len(bits) THEN bits[i + 1] ELSE 0]

\* Number of low bits of which every setting is tried in the hashes compared.
MaxWordBits == 3

\* The hashes handed to compare_hashes: every setting of the low bits, the
\* two hashes of the tests (0b1011100100, 0b1101101100), the highest bit
\* alone and all 64 bits.
Words ==
    {WordOfBits(b) : b \in [1..MaxWordBits -> {0, 1}]}
        \cup {WordOfBits(<<0, 0, 1, 0, 0, 1, 1, 1, 0, 1>>),
              WordOfBits(<<0, 0, 1, 1, 0, 1, 1, 0, 1, 1>>),
              [i \in 0..(HashBits - 1) |-> IF i = HashBits - 1 THEN 1 ELSE 0],
              [i \in 0..(HashBits - 1) |-> 1]}

\* Largest magnitude of the coefficients handed to reduce_dct_coefficients.
MaxCoef == 1

\* The sides of the square coefficient matrices of which every content is
\* tried.
CoefDims == {1, 2}

\* The coefficient matrices handed to reduce_dct_coefficients: the small
\* square ones, a 3 x 3 one and a 2 x 3 one.
CoefMatrices ==
    UNION {Matrices(n, n, (-MaxCoef)..MaxCoef) : n \in CoefDims}
        \cup {FromRows(3, 3, <<<<9, -2, 1>>, <<0, 3, -1>>, <<-4, 1, 0>>>>),
              FromRows(2, 3, <<<<7, 1, -1>>, <<-1, 0, 2>>>>)}

\* dct_reduced_dimension: none, and sides within and beyond the matrices.
CoefReducedDims == {0, 1, 2, 3}

NoDctCall ==
    [op |-> "none", mat |-> Filled(0, 0, 0), dim |-> 0, hash1 |-> ZeroWord,
     hash2 |-> ZeroWord, kind |-> "none", bits |-> Filled(0, 0, 0),
     hash |-> ZeroWord, distance |-> 0]

InitDct ==
    /\ image = NoImage
    /\ call = NoDctCall
    /\ pc = "dct"
    /\ left = NoImage
    /\ right = NoImage
    /\ cmp = NoCmp

\* hash_coefficients(&mat)
CallHashCoefficients(mat) ==
    /\ pc = "dct"
    /\ call.op = "none"
    /\ LET res == HashCoefficients(mat)
       IN  call' = [NoDctCall EXCEPT !.op = "hash_coefficients", !.mat = mat,
                       !.kind = res.kind, !.hash = res.hash]
    /\ UNCHANGED <<image, pc, left, right, cmp>>

\* compare_hashes(hash1, hash2)
CallCompareHashes(hash1, hash2) ==
    /\ pc = "dct"
    /\ call.op = "none"
    /\ call' = [NoDctCall EXCEPT !.op = "compare_hashes", !.hash1 = hash1,
                    !.hash2 = hash2, !.kind = "ok",
                    !.distance = CompareHashes(hash1, hash2)]
    /\ UNCHANGED <<image, pc, left, right, cmp>>

\* reduce_dct_coefficients(mat, dct_reduced_dimension)
CallReduceDctCoefficients(mat, dct_reduced_dimension) ==
    /\ pc = "dct"
    /\ call.op = "none"
    /\ call' = IF ReducePanics(dct_reduced_dimension)
               THEN [NoDctCall EXCEPT !.op = "reduce_dct_coefficients", !.mat = mat,
                        !.dim = dct_reduced_dimension, !.kind = "panic"]
               ELSE [NoDctCall EXCEPT !.op = "reduce_dct_coefficients", !.mat = mat,
                        !.dim = dct_reduced_dimension, !.kind = "ok",
                        !.bits = ReduceDctCoefficients(mat, dct_reduced_dimension)]
    /\ UNCHANGED <<image, pc, left, right, cmp>>

NextDct ==
    \/ \E mat \in BitMatrices : CallHashCoefficients(mat)
    \/ \E hash1 \in Words, hash2 \in Words : CallCompareHashes(hash1, hash2)
    \/ \E mat \in CoefMatrices, r \in CoefReducedDims :
           CallReduceDctCoefficients(mat, r)

SpecDct == InitDct /\ [][NextDct]_vars

----------------------------------------------------------------------------
(* Claims about the image operations, checked under Spec.                  *)

\* The Image invariants of the data model: positive dimensions, width *
\* height pixels, every pixel of channels_per_pixel bytes.
WellFormed(img) ==
    /\ img.width > 0 /\ img.height > 0 /\ img.channels_per_pixel > 0
    /\ Len(img.pixels) = img.width * img.height
    /\ \A i \in 1..Len(img.pixels) : Len(img.pixels[i]) = img.channels_per_pixel

\* C4: an image Image::from returns has height floor(len / (c * w)), holds
\* exactly w * height pixels, the leading w * height * c bytes of the buffer,
\* and each pixel has c bytes.
C4_FromKeepsWholeRows ==
    (call.op = "from" /\ call.kind = "ok") =>
        LET h == Len(call.raw) \div (call.channels * call.width)
        IN  /\ call.out.width = call.width
            /\ call.out.height = h
            /\ Len(call.out.pixels) = call.width * h
            /\ \A i \in 1..Len(call.out.pixels) :
                   Len(call.out.pixels[i]) = call.channels
            /\ Flatten(call.out.pixels) =
                   SubSeq(call.raw, 1, call.width * h * call.channels)

\* C5: Image::from fails on an empty buffer, a zero width or a zero channel
\* count, and every image it returns has width, height and
\* channels_per_pixel above zero.
C5_FromRejectsOrPositive ==
    call.op = "from" =>
        /\ (Len(call.raw) = 0 \/ call.width = 0 \/ call.channels = 0)
               => call.kind = "err"
        /\ call.kind = "ok" =>
               /\ call.out.width > 0
               /\ call.out.height > 0
               /\ call.out.channels_per_pixel > 0

\* C6: the image into_grayscale returns reports one channel per pixel and
\* has the width and height of its input.
C6_GrayscaleOneChannel ==
    call.op = "grayscale" =>
        /\ call.out.channels_per_pixel = 1
        /\ call.out.width = call.src.width
        /\ call.out.height = call.src.height

\* C7: at every position (x, y) inside the image, the pixel of
\* into_grayscale(image) is the one byte floor(sum of the input pixel's
\* channels / their number); the number of pixels is unchanged.
C7_GrayscaleAverages ==
    call.op = "grayscale" =>
        /\ Len(call.out.pixels) = Len(call.src.pixels)
        /\ \A x \in 0..(call.src.width - 1), y \in 0..(call.src.height - 1) :
               LET p == call.src.pixels[y * call.src.width + x + 1]
               IN  call.out.pixels[y * call.src.width + x + 1] =
                       <<SumSeq(p) \div Len(p)>>

\* C7's case: a two-channel pixel (0, 255) in the second column became 127.
C7_Witness ==
    /\ call.op = "grayscale"
    /\ call.src.width = 2 /\ call.src.height = 1
    /\ call.src.pixels[2] = <<0, 255>>
    /\ call.out.pixels = <<<<255>>, <<127>>>>

\* The exact footprint of destination coordinate new_c: floor(new_c * dim /
\* new_dim) up to ceil((new_c + 1) * dim / new_dim).
ExactLow(new_c, new_dim, dim) == (new_c * dim) \div new_dim

ExactHigh(new_c, new_dim, dim) == ((new_c + 1) * dim + new_dim - 1) \div new_dim

\* floor(sum / count) of channel ch over the exact footprint of (nx, ny).
BoxMean(src, new_width, new_height, nx, ny, ch) ==
    LET l == ExactLow(nx, new_width, src.width)
        r == ExactHigh(nx, new_width, src.width)
        t == ExactLow(ny, new_height, src.height)
        b == ExactHigh(ny, new_height, src.height)
        cells == [i \in 1..((r - l) * (b - t)) |->
                    src.pixels[(t + ((i - 1) \div (r - l))) * src.width
                               + l + ((i - 1) % (r - l)) + 1][ch]]
    IN  SumSeq(cells) \div Len(cells)

\* C8: scaling an image (of width and height at least 1) to a different
\* size w' x h', both at least 1, returns an image of that size and of the
\* source's channels_per_pixel whose every channel is floor(sum / count)
\* over the exact footprint of its pixel.
C8_ScaleBoxAverage ==
    (/\ call.op = "scale"
     /\ WellFormed(call.src)
     /\ call.new_width >= 1 /\ call.new_height >= 1
     /\ ~(call.new_width = call.src.width /\ call.new_height = call.src.height)) =>
        /\ call.kind = "ok"
        /\ call.out.width = call.new_width
        /\ call.out.height = call.new_height
        /\ call.out.channels_per_pixel = call.src.channels_per_pixel
        /\ Len(call.out.pixels) = call.new_width * call.new_height
        /\ \A nx \in 0..(call.new_width - 1), ny \in 0..(call.new_height - 1) :
               call.out.pixels[ny * call.new_width + nx + 1] =
                   [ch \in 1..call.src.channels_per_pixel |->
                       BoxMean(call.src, call.new_width, call.new_height, nx, ny, ch)]

\* C9: scale_image(I, width(I), height(I)) returns an image equal to I, and
\* leaves I as it was.
C9_ScaleSameSizeClones ==
    (/\ call.op = "scale"
     /\ call.new_width = call.src.width
     /\ call.new_height = call.src.height) =>
        /\ call.kind = "ok"
        /\ call.out = call.src
        /\ image = call.src

\* C10: scale_image returns an error, and no image, whenever the requested
\* width or the requested height is zero.
C10_ScaleZeroIsError ==
    (call.op = "scale" /\ (call.new_width = 0 \/ call.new_height = 0)) =>
        (call.kind = "err" /\ call.out = NoImage)

\* C10's case: a zero height asked together with the source's own width.
C10_Witness ==
    /\ call.op = "scale"
    /\ call.new_height = 0
    /\ call.new_width = call.src.width
    /\ call.src.height > 0
    /\ call.kind = "err"

\* C13: get_pixel(x, y) returns the pixel stored for column x of row y when
\* x < width and y < height, and panics whenever x >= width or y >= height.
C13_GetPixelChecksBounds ==
    call.op = "get_pixel" =>
        /\ (call.x < call.src.width /\ call.y < call.src.height) =>
               /\ call.kind = "ok"
               /\ call.pixel = call.src.pixels[call.y * call.src.width + call.x + 1]
        /\ (call.x >= call.src.width \/ call.y >= call.src.height) =>
               call.kind = "panic"

\* The least and the greatest of a non-empty set of integers.
MinOf(vals) == CHOOSE v \in vals : \A u \in vals : v <= u

MaxOf(vals) == CHOOSE v \in vals : \A u \in vals : v >= u

\* C15: when an image of width and height at least 1 is resampled to
\* w' x h', both at least 1, the footprint sample_pixels computes for every
\* destination pixel has left < right <= width and top < bottom <= height,
\* scale_image does not panic, and every channel average_pixels returns lies
\* between the least and the greatest value of that channel in the footprint.
C15_FootprintsInsideSource ==
    (/\ call.op = "scale"
     /\ call.src.width >= 1 /\ call.src.height >= 1
     /\ call.new_width >= 1 /\ call.new_height >= 1
     /\ ~(call.new_width = call.src.width /\ call.new_height = call.src.height)) =>
        LET scale_x == F32Div(F32FromInt(call.new_width), F32FromInt(call.src.width))
            scale_y == F32Div(F32FromInt(call.new_height), F32FromInt(call.src.height))
        IN  /\ \A nx \in 0..(call.new_width - 1) :
                   /\ FootLow(nx, scale_x) < FootHigh(nx, scale_x)
                   /\ FootHigh(nx, scale_x) <= call.src.width
            /\ \A ny \in 0..(call.new_height - 1) :
                   /\ FootLow(ny, scale_y) < FootHigh(ny, scale_y)
                   /\ FootHigh(ny, scale_y) <= call.src.height
            /\ call.kind # "panic"
            /\ \A nx \in 0..(call.new_width - 1), ny \in 0..(call.new_height - 1) :
                   LET pixels == Sampled(call.src,
                                         Footprint(nx, ny, scale_x, scale_y))
                       avg    == AveragePixels(pixels)
                   IN  \A ch \in 1..Len(avg) :
                           LET vals == {pixels[p][ch] : p \in 1..Len(pixels)}
                           IN  MinOf(vals) <= avg[ch] /\ avg[ch] <= MaxOf(vals)

----------------------------------------------------------------------------
(* Claims about compare_images, checked under SpecCompare.                 *)

\* The number of bit positions in which two hashes differ.
HammingDistance(h1, h2) == Cardinality({i \in 0..(HashBits - 1) : h1[i] # h2[i]})

\* The constraints the two dimensions of a configuration are specified to
\* satisfy: 1 <= R <= N and R * R <= 64.
ValidDims(config) ==
    /\ 1 <= config.dct_reduced_dimension
    /\ config.dct_reduced_dimension <= config.dct_dimension
    /\ config.dct_reduced_dimension * config.dct_reduced_dimension <= HashBits

\* The constraints a configuration is specified to satisfy.
ValidConfig(config) == ValidDims(config) /\ config.allowed_distance <= HashBits

\* C1: when both hashes are computed, compare_images returns Ok(true)
\* exactly when the hashes differ in at most allowed_distance bit positions,
\* and Ok(false) otherwise.
C1_VerdictIsDistanceWithinThreshold ==
    cmp.kind = "ok" =>
        (cmp.same <=> HammingDistance(cmp.left_hash, cmp.right_hash)
                          <= cmp.config.allowed_distance)

\* C1's case: two images whose hashes differ, compared at a threshold the
\* distance meets exactly.
C1_Witness ==
    /\ pc = "done"
    /\ cmp.kind = "ok"
    /\ cmp.left_hash # cmp.right_hash
    /\ cmp.distance = cmp.config.allowed_distance
    /\ cmp.same

\* C2: compare_images returns an error whenever the configuration violates
\* 1 <= dct_reduced_dimension <= dct_dimension, dct_reduced_dimension^2 <= 64
\* or allowed_distance <= 64.
C2_InvalidConfigIsError ==
    (pc = "done" /\ ~ValidConfig(cmp.config)) => cmp.kind = "err"

\* C3: for every image and every configuration with 1 <= R <= N and
\* R * R <= 64, whatever its allowed_distance, compare_images of the image
\* and an equal copy of it returns Ok(true). An image is taken to satisfy the
\* invariants of the data model; the statement fails all the more without
\* that (on an image of height 0).
C3_IdenticalImagesAreSame ==
    (pc = "done" /\ left = right /\ WellFormed(left) /\ ValidDims(cmp.config)) =>
        (cmp.kind = "ok" /\ cmp.same)

----------------------------------------------------------------------------
(* Claims about the functions of dct.rs, checked under SpecDct.            *)

\* The number of bits set in a word.
PopCount(word) == Cardinality({i \in 0..(HashBits - 1) : word[i] = 1})

\* The positions of the cells of a matrix that hold 1.
OneCells(mat) ==
    {p \in (0..(mat.nrows - 1)) \X (0..(mat.ncols - 1)) : mat.at[p[1], p[2]] = 1}

\* C11: hash_coefficients returns an error exactly when the matrix has more
\* than 64 cells; for a 0/1 matrix of at most 64 cells it returns the word
\* whose bit i is the i-th cell in column-major order (cell i is in row
\* i mod nrows of column i div nrows) and whose bits from the cell count on
\* are 0, so the word has as many bits set as the matrix has cells of 1.
C11_HashPacksColumnMajor ==
    call.op = "hash_coefficients" =>
        LET cells == call.mat.nrows * call.mat.ncols
        IN  /\ call.kind \in {"ok", "err"}
            /\ call.kind = "err" <=> cells > 64
            /\ cells <= 64 =>
                   /\ \A i \in 0..(HashBits - 1) :
                          call.hash[i] =
                              IF i < cells
                              THEN call.mat.at[i % call.mat.nrows, i \div call.mat.nrows]
                              ELSE 0
                   /\ PopCount(call.hash) = Cardinality(OneCells(call.mat))

\* C11's case: the matrix of the test calculate_hash_from_matrix is packed
\* into 0b010011110.
C11_Witness ==
    /\ call.op = "hash_coefficients"
    /\ call.mat = TestBits
    /\ call.kind = "ok"
    /\ call.hash = WordOfBits(<<0, 1, 1, 1, 1, 0, 0, 1, 0>>)

\* C12: compare_hashes(a, b) is the number of bit positions in which a and
\* b differ; it is 0 when a = b, lies between 0 and 64, and is the same for
\* (b, a).
C12_DistanceIsXorPopCount ==
    call.op = "compare_hashes" =>
        /\ call.distance =
               Cardinality({i \in 0..(HashBits - 1) : call.hash1[i] # call.hash2[i]})
        /\ call.hash1 = call.hash2 => call.distance = 0
        /\ call.distance >= 0 /\ call.distance <= 64
        /\ CompareHashes(call.hash2, call.hash1) = call.distance

\* C12's case: the hashes of the test return_non_zero_when_comparing_
\* different_hashes differ in 3 positions.
C12_Witness ==
    /\ call.op = "compare_hashes"
    /\ call.hash1 = WordOfBits(<<0, 0, 1, 1, 0, 1, 1, 0, 1, 1>>)
    /\ call.hash2 = WordOfBits(<<0, 0, 1, 0, 0, 1, 1, 1, 0, 1>>)
    /\ call.distance = 3

\* Entry (i, j) of C', the top-left block of mat with its entry (0, 0) set
\* to 0.
ZeroedBlock(mat, i, j) == IF i = 0 /\ j = 0 THEN 0 ELSE mat.at[i, j]

\* The sum of the r * r entries of C', row by row.
BlockSum(mat, r) ==
    SumSeq([k \in 1..(r * r) |-> ZeroedBlock(mat, (k - 1) \div r, (k - 1) % r)])

\* C14: for a matrix C that has a top-left R x R block with R >= 1,
\* reduce_dct_coefficients(C, R) returns an R x R matrix of 0/1 whose bit
\* (i, j) is 1 exactly when C'[i, j] >= mu, where C' is that block with
\* C'[0, 0] set to 0 and mu the mean of its R * R entries (C'[i, j] >= mu
\* is C'[i, j] * R * R >= their sum); bit (0, 0) is 1 exactly when mu <= 0.
C14_ReduceThresholdsAtMean ==
    (/\ call.op = "reduce_dct_coefficients"
     /\ call.dim >= 1
     /\ call.dim <= call.mat.nrows /\ call.dim <= call.mat.ncols) =>
        /\ call.kind = "ok"
        /\ call.bits.nrows = call.dim /\ call.bits.ncols = call.dim
        /\ \A i \in 0..(call.dim - 1), j \in 0..(call.dim - 1) :
               call.bits.at[i, j] =
                   IF ZeroedBlock(call.mat, i, j) * call.dim * call.dim
                          >= BlockSum(call.mat, call.dim)
                   THEN 1 ELSE 0
        /\ call.bits.at[0, 0] = 1 <=> BlockSum(call.mat, call.dim) <= 0

\* C14's case: the block of a 3 x 3 matrix reduced to 2 x 2. C' is
\* ((0, -2), (0, 3)), its mean 1/4: only 3 is at or above it.
C14_Witness ==
    /\ call.op = "reduce_dct_coefficients"
    /\ call.mat.nrows = 3 /\ call.dim = 2
    /\ call.kind = "ok"
    /\ call.bits = FromRows(2, 2, <<<<0, 0>>, <<0, 1>>>>)

====
